---- MODULE Spec2Model ----
(***************************************************************************)
(* Model of src/main.py: splitting a PDF of double-page spreads into       *)
(* single pages (split_double_spread_pdf), the page-number sort key        *)
(* (extract_page_number), input discovery (find_first_pdf_in_directory)    *)
(* and the command-line entry point (main).                                *)
(*                                                                         *)
(* Strings are sequences of one-character strings, so that formatting a    *)
(* counter, matching the regular expression and splitting a path are       *)
(* computed, not assumed.  Lengths are fixed-point numbers counting half   *)
(* points, so that the true division page_width / 2 is exact.              *)
(***************************************************************************)
EXTENDS Integers, Sequences, FiniteSets, TLC

\* ---------------------------------------------------------------- bounds
MaxPages == 5
MaxRuns == 2
MaxWidth == 3
MaxHeight == 2
MaxPerm == 4

\* --------------------------------------------------------------- strings
None == <<"None">>
\* no exception is in flight
NoException == "none"
\* the value of a list of paths that is not there
NoResult == <<None>>

Digits == <<"0", "1", "2", "3", "4", "5", "6", "7", "8", "9">>

IsDigit(c) == \E i \in 1..10 : Digits[i] = c

DigitVal(c) == (CHOOSE i \in 1..10 : Digits[i] = c) - 1

\* str(n) of a non-negative integer, as the f-string formats it
RECURSIVE Str(_)
Str(n) == IF n < 10 THEN <<Digits[n + 1]>>
          ELSE Str(n \div 10) \o <<Digits[(n % 10) + 1]>>

\* int(s) of a non-empty string of digits
RECURSIVE ParseInt(_)
ParseInt(s) == IF Len(s) = 0 THEN 0
               ELSE ParseInt(SubSeq(s, 1, Len(s) - 1)) * 10 + DigitVal(s[Len(s)])

\* str.lower() on the characters that occur in the modelled names
LowerChar(c) == CASE c = "A" -> "a"
                  [] c = "P" -> "p"
                  [] c = "D" -> "d"
                  [] c = "F" -> "f"
                  [] OTHER -> c

Lower(s) == [i \in 1..Len(s) |-> LowerChar(s[i])]

EndsWith(s, suf) == /\ Len(s) >= Len(suf)
                    /\ SubSeq(s, Len(s) - Len(suf) + 1, Len(s)) = suf

DotPdf == <<".", "p", "d", "f">>
Underscore == <<"_">>
CombinedSuffix == <<"_", "c", "o", "m", "b", "i", "n", "e", "d", ".", "p", "d", "f">>

\* position of the last occurrence of c in s, 0 if none
LastIndex(s, c) == IF \E i \in 1..Len(s) : s[i] = c
                   THEN CHOOSE i \in 1..Len(s) :
                          s[i] = c /\ \A j \in (i + 1)..Len(s) : s[j] # c
                   ELSE 0

\* os.path.basename
basename(p) == SubSeq(p, LastIndex(p, "/") + 1, Len(p))

\* os.path.dirname: the head up to the last slash, trailing slashes stripped
\* unless the head is only slashes
dirname(p) ==
    LET i == LastIndex(p, "/")
        head == SubSeq(p, 1, i)
    IN  IF \A k \in 1..Len(head) : head[k] = "/" THEN head
        ELSE SubSeq(head, 1, i - 1)

\* os.path.join of two components
join(a, b) == IF Len(b) > 0 /\ b[1] = "/" THEN b
              ELSE IF Len(a) = 0 \/ a[Len(a)] = "/" THEN a \o b
              ELSE a \o <<"/">> \o b

\* os.path.splitext(p)[0]: cut at the last dot of the last component, unless
\* that component has only dots before it
splitext_root(p) ==
    LET sep == LastIndex(p, "/")
        dot == LastIndex(p, ".")
    IN  IF dot > sep /\ \E k \in (sep + 1)..(dot - 1) : p[k] # "."
        THEN SubSeq(p, 1, dot - 1)
        ELSE p

\* ------------------------------------------------- extract_page_number
\* Sort keys: an integer page number, or float("inf") when the name does not
\* match; inf is larger than every integer.
IntKey(n) == [inf |-> FALSE, n |-> n]
InfKey == [inf |-> TRUE, n |-> 0]

KeyLess(a, b) == IF a.inf THEN FALSE
                 ELSE IF b.inf THEN TRUE
                 ELSE a.n < b.n

\* length of the longest run of digits that ends s
RECURSIVE DigitRun(_)
DigitRun(s) == IF Len(s) > 0 /\ IsDigit(s[Len(s)])
               THEN 1 + DigitRun(SubSeq(s, 1, Len(s) - 1))
               ELSE 0

\* re.search(r"_(\d+)\.pdf$", filename), then int(group 1) or inf
extract_page_number(filename) ==
    IF ~EndsWith(filename, DotPdf) THEN InfKey
    ELSE LET stem == SubSeq(filename, 1, Len(filename) - 4)
             k == DigitRun(stem)
         IN  IF k >= 1 /\ Len(stem) > k /\ stem[Len(stem) - k] = "_"
             THEN IntKey(ParseInt(SubSeq(stem, Len(stem) - k + 1, Len(stem))))
             ELSE InfKey

\* sorted(list, key=extract_page_number): a stable sort, here by insertion
\* of each element after the last element whose key is not larger
RECURSIVE InsertByKey(_, _)
InsertByKey(sortedSeq, x) ==
    IF Len(sortedSeq) = 0 THEN <<x>>
    ELSE IF KeyLess(extract_page_number(x),
                    extract_page_number(sortedSeq[Len(sortedSeq)]))
         THEN InsertByKey(SubSeq(sortedSeq, 1, Len(sortedSeq) - 1), x)
                \o <<sortedSeq[Len(sortedSeq)]>>
         ELSE sortedSeq \o <<x>>

\* the list is merged in the order it has, without sorting
sorted_Unsorted(list) == list

RECURSIVE sorted(_)
sorted(list) == IF Len(list) = 0 THEN <<>>
                ELSE InsertByKey(sorted(SubSeq(list, 1, Len(list) - 1)),
                                 list[Len(list)])

\* ------------------------------------------------------------ the world
Dot == <<".">>
Cwd == <<"/", "w">>
OutName == <<"o", "u", "t">>
OtherDir == <<"d">>

\* The file a path names: relative paths are resolved against the current
\* working directory, as the operating system does for exists/makedirs/save
Norm(p) == IF Len(p) > 0 /\ p[1] = "/" THEN p
           ELSE IF p = Dot THEN Cwd
           ELSE IF Len(p) >= 2 /\ p[1] = "." /\ p[2] = "/"
                THEN Cwd \o SubSeq(p, 2, Len(p))
           ELSE Cwd \o <<"/">> \o p

\* the directory d and every directory above it
Ancestors(d) == {<<"/">>} \cup
                {SubSeq(d, 1, i) : i \in {j \in 1..Len(d) :
                                            j = Len(d) \/ d[j + 1] = "/"}}

Put(f, k, v) == [x \in (DOMAIN f) \cup {k} |-> IF x = k THEN v ELSE f[x]]

EmptyFiles == [x \in {} |-> <<>>]

\* Lengths are fixed-point: Fix(n) is n points
Fix(n) == 2 * n

Rect(x0, y0, x1, y1) == [x0 |-> x0, y0 |-> y0, x1 |-> x1, y1 |-> y1]

\* A page of a document: its media box size, and what it shows: the region
\* clip of page number of the original document
Page(w, h, number, clip) == [width |-> w, height |-> h, number |-> number, clip |-> clip]

\* An original document of n double-spread pages; k varies the page sizes
Doc(n, k) == [i \in 1..n |->
                LET w == Fix(1 + ((i + k) % MaxWidth))
                    h == Fix(1 + (((i + k) \div MaxWidth) % MaxHeight))
                IN  Page(w, h, i - 1, Rect(0, 0, w, h))]

Docs == {Doc(n, k) : n \in 0..MaxPages, k \in 0..(MaxWidth - 1)}

Stems == {<<>>, <<"a">>, <<"a", "_", "1">>}
Exts == {<<>>, DotPdf, <<".", "P", "D", "F">>}
Names == {s \o e : s \in Stems, e \in Exts} \ {<<>>}
CwdNames == {<<"a", ".", "t", "x", "t">>, <<"A", ".", "P", "D", "F">>,
             <<"a", "_", "1", ".", "p", "d", "f">>}
ExplicitInputs == {join(d, n) : d \in {Dot, OtherDir}, n \in Names}
OutputDirOptions == {None, Dot}

\* lines written by typer.echo
Line(kind, arg) == [kind |-> kind, arg |-> arg]
NoPdfLine == Line("No PDF found in the current directory.", <<>>)
HeaderLine == Line("Generated PDF files:", <<>>)
FileLine(path) == Line("file", path)
ErrorLine(e) == Line("An error occurred", <<e>>)

\* ---------------------------------------------------------------- state
VARIABLES
    input_pdf,              \* option -i, None if absent
    output_dir_opt,         \* option -o, None if absent
    combine,                \* option -c
    viaMain,                \* TRUE: main runs; FALSE: the function is called
    files,                  \* the file system: resolved path -> document
    dirs,                   \* the directories that exist
    pc,                     \* position in the program
    found_pdf,              \* main's found_pdf = input_pdf_path of the call
    output_dir,             \* output_dir of the call
    base_filename,
    pdf_document,
    generated_pdfs,
    page_counter,
    page_num,
    left_clip,
    right_clip,
    left_page_doc,
    right_page_doc,
    left_output_filename,
    right_output_filename,
    combined_pdf_path,
    combined_document,
    merge_queue,            \* the rest of sorted(generated_pdfs) to merge
    handles,                \* the document handles that are open
    exc,                    \* the exception in flight, NoException if none
    result,                 \* the list returned by the call, None before
    output,                 \* the lines echoed by main
    written,                \* the paths saved by this run, in order
    runs,                   \* number of the current run
    prev                    \* what the previous run returned, wrote and left

optVars == <<input_pdf, output_dir_opt, combine, viaMain, runs, prev>>
fsVars == <<files, dirs, written>>
callVars == <<found_pdf, output_dir, base_filename>>
loopVars == <<pdf_document, generated_pdfs, page_counter, page_num>>
pageVars == <<left_clip, right_clip, left_page_doc, right_page_doc,
              left_output_filename, right_output_filename>>
combVars == <<combined_pdf_path, combined_document, merge_queue>>
endVars == <<result, output>>

vars == <<optVars, fsVars, callVars, loopVars, pageVars, combVars, endVars,
          pc, handles, exc>>

NoRect == Rect(0, 0, 0, 0)

\* the locals of a run before it starts
Fresh == /\ base_filename = None
         /\ pdf_document = <<>>
         /\ generated_pdfs = <<>>
         /\ page_counter = 0
         /\ page_num = 0
         /\ left_clip = NoRect
         /\ right_clip = NoRect
         /\ left_page_doc = <<>>
         /\ right_page_doc = <<>>
         /\ left_output_filename = None
         /\ right_output_filename = None
         /\ combined_pdf_path = None
         /\ combined_document = <<>>
         /\ merge_queue = <<>>
         /\ handles = {}
         /\ exc = NoException
         /\ result = NoResult
         /\ output = <<>>
         /\ written = <<>>

Init ==
    /\ viaMain \in BOOLEAN
    /\ combine \in BOOLEAN
    /\ \E doc \in Docs :
         \/ /\ viaMain
            /\ input_pdf = None
            /\ \E present \in SUBSET CwdNames :
                 files = [f \in {Norm(join(Dot, n)) : n \in present} |-> doc]
            /\ dirs = Ancestors(Cwd)
         \/ /\ input_pdf \in ExplicitInputs
            /\ \E exists \in BOOLEAN :
                 /\ files = IF exists THEN Put(EmptyFiles, Norm(input_pdf), doc)
                            ELSE EmptyFiles
                 /\ dirs = Ancestors(Cwd) \cup
                           (IF exists THEN Ancestors(dirname(Norm(input_pdf))) ELSE {})
    /\ output_dir_opt \in (IF viaMain THEN OutputDirOptions ELSE {None})
    /\ pc = IF viaMain THEN "main" ELSE "validate"
    /\ found_pdf = IF viaMain THEN None ELSE input_pdf
    /\ output_dir = IF viaMain THEN None ELSE output_dir_opt
    /\ runs = 1
    /\ prev = [result |-> NoResult, written |-> <<>>, files |-> {}]
    /\ Fresh

\* an exception leaves the current step; nothing else changes
Raise(e) == /\ pc' = "raised"
            /\ exc' = e

\* os.path.exists
exists(p) == Norm(p) \in DOMAIN files \/ Norm(p) \in dirs

\* -------------------------------------------------------------- main
\* find_first_pdf_in_directory("."): os.listdir yields the names in any
\* order, so any name with the suffix may be the first
PdfsInCwd == {f \in DOMAIN files :
                /\ dirname(f) = Cwd
                /\ EndsWith(Lower(basename(f)), DotPdf)}

\* the suffix of the name is not looked at
find_first_pdf_in_directory_AnyFile ==
    LET inCwd == {f \in DOMAIN files : dirname(f) = Cwd}
    IN  IF inCwd = {} THEN {None} ELSE {join(Dot, basename(f)) : f \in inCwd}


find_first_pdf_in_directory == IF PdfsInCwd = {} THEN {None}
                               ELSE {join(Dot, basename(f)) : f \in PdfsInCwd}

MainResolve ==
    /\ pc = "main"
    /\ \E found \in (IF input_pdf = None THEN find_first_pdf_in_directory
                     ELSE {input_pdf}) :
         IF found = None
         THEN /\ output' = output \o <<NoPdfLine>>
              /\ pc' = "aborted"
              /\ UNCHANGED <<found_pdf, output_dir>>
         ELSE /\ found_pdf' = found
              /\ output_dir' = IF output_dir_opt = None \/ output_dir_opt = <<>>
                               THEN join(Cwd, OutName)
                               ELSE output_dir_opt
              /\ pc' = "validate"
              /\ UNCHANGED output
    /\ UNCHANGED <<optVars, fsVars, base_filename, loopVars, pageVars, combVars,
                   result, handles, exc>>

MainPrint ==
    /\ pc = "print"
    /\ output' = output \o <<HeaderLine>> \o
                 [i \in 1..Len(result) |-> FileLine(result[i])]
    /\ pc' = "done"
    /\ UNCHANGED <<optVars, fsVars, callVars, loopVars, pageVars, combVars,
                   result, handles, exc>>

\* the handler also prints the files generated before the failure
MainExcept_PrintsPartial ==
    /\ pc = "raised"
    /\ viaMain
    /\ output' = output \o <<ErrorLine(exc)>> \o
                 [i \in 1..Len(generated_pdfs) |-> FileLine(generated_pdfs[i])]
    /\ pc' = "aborted"
    /\ UNCHANGED <<optVars, fsVars, callVars, loopVars, pageVars, combVars,
                   result, handles, exc>>


MainExcept ==
    /\ pc = "raised"
    /\ viaMain
    /\ output' = output \o <<ErrorLine(exc)>>
    /\ pc' = "aborted"
    /\ UNCHANGED <<optVars, fsVars, callVars, loopVars, pageVars, combVars,
                   result, handles, exc>>

\* the number continues after the files the output directory already holds
split_name_Fresh(base, n) ==
    base \o Underscore
         \o Str(n + Cardinality({f \in DOMAIN files : dirname(f) = Norm(output_dir)}))
         \o DotPdf

\* ------------------------------------------- split_double_spread_pdf
\* f"{base_filename}_{page_counter}.pdf"
split_name(base, n) == base \o Underscore \o Str(n) \o DotPdf

\* the combined file is named after the base name alone
combined_name_NoSuffix(base) == base \o DotPdf

\* f"{base_filename}_combined.pdf"
combined_name(base) == base \o CombinedSuffix

\* the counter advances by one per page instead of one per half
NextCounter_ByOne(c) == c + 1

\* page_counter += 2
NextCounter(c) == c + 2

\* page_width / 2, exact in fixed point
Half(w) == w \div 2

\* fitz.Rect(0, 0, page_width / 2, page_height)
LeftClip(w, h) == Rect(0, 0, Half(w), h)

\* the right region repeats the left one
RightClip_Copy(w, h) == Rect(0, 0, Half(w), h)

\* fitz.Rect(page_width / 2, 0, page_width, page_height)
RightClip(w, h) == Rect(Half(w), 0, w, h)

\* a new document with one page of the given size showing clip of page
NewPageDoc(w, h, page, clip) == <<Page(w, h, page.number, clip)>>

\* the output directory is made before the input is looked for
Validate_AfterMakedirs ==
    /\ pc = "validate"
    /\ dirs' = dirs \cup Ancestors(Norm(IF output_dir = None
                                        THEN dirname(found_pdf) ELSE output_dir))
    /\ IF exists(found_pdf)
       THEN pc' = "makedirs" /\ UNCHANGED exc
       ELSE Raise("FileNotFoundError")
    /\ UNCHANGED <<optVars, files, written, callVars, loopVars, pageVars,
                   combVars, endVars, handles>>


Validate ==
    /\ pc = "validate"
    /\ IF exists(found_pdf)
       THEN pc' = "makedirs" /\ UNCHANGED exc
       ELSE Raise("FileNotFoundError")
    /\ UNCHANGED <<optVars, fsVars, callVars, loopVars, pageVars, combVars,
                   endVars, handles>>

Makedirs ==
    /\ pc = "makedirs"
    /\ LET dir == IF output_dir = None THEN dirname(found_pdf) ELSE output_dir
       IN  /\ output_dir' = dir
           /\ \/ /\ dirs' = dirs \cup Ancestors(Norm(dir))
                 /\ base_filename' = splitext_root(basename(found_pdf))
                 /\ pc' = "open"
                 /\ UNCHANGED exc
              \/ /\ Raise("OSError")
                 /\ UNCHANGED <<dirs, base_filename>>
    /\ UNCHANGED <<optVars, files, written, found_pdf, loopVars, pageVars,
                   combVars, endVars, handles>>

OpenSource ==
    /\ pc = "open"
    /\ \/ /\ Norm(found_pdf) \in DOMAIN files
          /\ pdf_document' = files[Norm(found_pdf)]
          /\ handles' = handles \cup {"pdf_document"}
          /\ generated_pdfs' = <<>>
          /\ page_counter' = 1
          /\ page_num' = 0
          /\ pc' = "loop"
          /\ UNCHANGED exc
       \/ /\ Raise("FileDataError")
          /\ UNCHANGED <<loopVars, handles>>
    /\ UNCHANGED <<optVars, fsVars, callVars, pageVars, combVars, endVars>>

Render ==
    /\ pc = "loop"
    /\ page_num < Len(pdf_document)
    /\ LET page == pdf_document[page_num + 1]
           page_width == page.width
           page_height == page.height
       IN  /\ left_clip' = LeftClip(page_width, page_height)
           /\ right_clip' = RightClip(page_width, page_height)
           /\ handles' = handles \cup {"left_page_doc", "right_page_doc"}
           /\ \/ /\ left_page_doc' = NewPageDoc(Half(page_width), page_height,
                                                page, left_clip')
                 /\ right_page_doc' = NewPageDoc(Half(page_width), page_height,
                                                 page, right_clip')
                 /\ left_output_filename' =
                        join(output_dir, split_name(base_filename, page_counter))
                 /\ right_output_filename' =
                        join(output_dir, split_name(base_filename, page_counter + 1))
                 /\ page_counter' = NextCounter(page_counter)
                 /\ pc' = "save_left"
                 /\ UNCHANGED exc
              \/ /\ Raise("RuntimeError")
                 /\ UNCHANGED <<left_page_doc, right_page_doc, left_output_filename,
                                right_output_filename, page_counter>>
    /\ UNCHANGED <<optVars, fsVars, callVars, pdf_document, generated_pdfs,
                   page_num, combVars, endVars>>

SaveLeft ==
    /\ pc = "save_left"
    /\ \/ /\ files' = Put(files, Norm(left_output_filename), left_page_doc)
          /\ written' = Append(written, left_output_filename)
          /\ pc' = "save_right"
          /\ UNCHANGED exc
       \/ /\ Raise("OSError")
          /\ UNCHANGED <<files, written>>
    /\ UNCHANGED <<optVars, dirs, callVars, loopVars, pageVars, combVars,
                   endVars, handles>>

SaveRight ==
    /\ pc = "save_right"
    /\ \/ /\ files' = Put(files, Norm(right_output_filename), right_page_doc)
          /\ written' = Append(written, right_output_filename)
          /\ pc' = "extend"
          /\ UNCHANGED exc
       \/ /\ Raise("OSError")
          /\ UNCHANGED <<files, written>>
    /\ UNCHANGED <<optVars, dirs, callVars, loopVars, pageVars, combVars,
                   endVars, handles>>

ExtendClose ==
    /\ pc = "extend"
    /\ generated_pdfs' = generated_pdfs \o
                         <<left_output_filename, right_output_filename>>
    /\ handles' = handles \ {"left_page_doc", "right_page_doc"}
    /\ page_num' = page_num + 1
    /\ pc' = "loop"
    /\ UNCHANGED <<optVars, fsVars, callVars, pdf_document, page_counter,
                   pageVars, combVars, endVars, exc>>

CloseSource ==
    /\ pc = "loop"
    /\ page_num >= Len(pdf_document)
    /\ handles' = handles \ {"pdf_document"}
    /\ pc' = IF combine THEN "combine" ELSE "return"
    /\ UNCHANGED <<optVars, fsVars, callVars, loopVars, pageVars, combVars,
                   endVars, exc>>

CombineOpen ==
    /\ pc = "combine"
    /\ combined_pdf_path' = join(output_dir, combined_name(base_filename))
    /\ combined_document' = <<>>
    /\ handles' = handles \cup {"combined_document"}
    /\ merge_queue' = sorted(generated_pdfs)
    /\ pc' = "merge"
    /\ UNCHANGED <<optVars, fsVars, callVars, loopVars, pageVars, endVars, exc>>

MergeStep ==
    /\ pc = "merge"
    /\ merge_queue # <<>>
    /\ LET pdf_path == Head(merge_queue)
       IN  \/ /\ Norm(pdf_path) \in DOMAIN files
              /\ combined_document' = combined_document \o files[Norm(pdf_path)]
              /\ merge_queue' = Tail(merge_queue)
              /\ UNCHANGED <<pc, exc, handles>>
           \/ /\ Raise("FileDataError")
              /\ UNCHANGED <<combined_document, merge_queue, handles>>
           \/ /\ Raise("RuntimeError")
              /\ handles' = handles \cup {"pdf_to_merge"}
              /\ UNCHANGED <<combined_document, merge_queue>>
    /\ UNCHANGED <<optVars, fsVars, callVars, loopVars, pageVars,
                   combined_pdf_path, endVars>>

\* the combined path is not appended to the list
CombineSave_NoAppend ==
    /\ pc = "merge"
    /\ merge_queue = <<>>
    /\ \/ /\ files' = Put(files, Norm(combined_pdf_path), combined_document)
          /\ written' = Append(written, combined_pdf_path)
          /\ handles' = handles \ {"combined_document"}
          /\ pc' = "return"
          /\ UNCHANGED exc
       \/ /\ Raise("OSError")
          /\ UNCHANGED <<files, written, handles>>
    /\ UNCHANGED <<optVars, dirs, callVars, loopVars, pageVars, combVars, endVars>>


CombineSave ==
    /\ pc = "merge"
    /\ merge_queue = <<>>
    /\ \/ /\ files' = Put(files, Norm(combined_pdf_path), combined_document)
          /\ written' = Append(written, combined_pdf_path)
          /\ handles' = handles \ {"combined_document"}
          /\ generated_pdfs' = Append(generated_pdfs, combined_pdf_path)
          /\ pc' = "return"
          /\ UNCHANGED exc
       \/ /\ Raise("OSError")
          /\ UNCHANGED <<files, written, handles, generated_pdfs>>
    /\ UNCHANGED <<optVars, dirs, callVars, pdf_document, page_counter, page_num,
                   pageVars, combVars, endVars>>

Return ==
    /\ pc = "return"
    /\ result' = generated_pdfs
    /\ pc' = IF viaMain THEN "print" ELSE "returned"
    /\ UNCHANGED <<optVars, fsVars, callVars, loopVars, pageVars, combVars,
                   output, handles, exc>>

\* the same command is run a second time on the file system the first left
Rerun ==
    /\ pc = "done"
    /\ runs < MaxRuns
    /\ input_pdf # None
    /\ runs' = runs + 1
    /\ prev' = [result |-> result, written |-> written, files |-> DOMAIN files]
    /\ pc' = "main"
    /\ found_pdf' = None
    /\ output_dir' = None
    /\ base_filename' = None
    /\ pdf_document' = <<>>
    /\ generated_pdfs' = <<>>
    /\ page_counter' = 0
    /\ page_num' = 0
    /\ left_clip' = NoRect
    /\ right_clip' = NoRect
    /\ left_page_doc' = <<>>
    /\ right_page_doc' = <<>>
    /\ left_output_filename' = None
    /\ right_output_filename' = None
    /\ combined_pdf_path' = None
    /\ combined_document' = <<>>
    /\ merge_queue' = <<>>
    /\ handles' = {}
    /\ exc' = NoException
    /\ result' = NoResult
    /\ output' = <<>>
    /\ written' = <<>>
    /\ UNCHANGED <<input_pdf, output_dir_opt, combine, viaMain, files, dirs>>

Next ==
    \/ MainResolve
    \/ Validate
    \/ Makedirs
    \/ OpenSource
    \/ Render
    \/ SaveLeft
    \/ SaveRight
    \/ ExtendClose
    \/ CloseSource
    \/ CombineOpen
    \/ MergeStep
    \/ CombineSave
    \/ Return
    \/ MainPrint
    \/ MainExcept
    \/ Rerun

Spec == Init /\ [][Next]_vars

\* ================================================================ claims
\* the input document of the call, as it is on disk
Source == files[Norm(found_pdf)]

\* doc is one page showing the left (right) half of page i of the source
IsLeftHalf(doc, i) ==
    /\ Len(doc) = 1
    /\ doc[1].number = i
    /\ doc[1].clip.x0 = 0 /\ 2 * doc[1].clip.x1 = Source[i + 1].width

IsRightHalf(doc, i) ==
    /\ Len(doc) = 1
    /\ doc[1].number = i
    /\ 2 * doc[1].clip.x0 = Source[i + 1].width
    /\ doc[1].clip.x1 = Source[i + 1].width

\* C1: a successful call returns 2N paths, or 2N+1 with combine_output; the
\* first 2N are the split files in generation order (left of page 0, right
\* of page 0, left of page 1, ...) and the combined path, when asked for, is
\* the last entry and occurs once.
C1_ReturnedList ==
    result # NoResult =>
        LET N == Len(Source)
        IN  /\ Len(result) = 2 * N + (IF combine THEN 1 ELSE 0)
            /\ \A i \in 0..(N - 1) :
                 /\ IsLeftHalf(files[Norm(result[2 * i + 1])], i)
                 /\ IsRightHalf(files[Norm(result[2 * i + 2])], i)
            /\ \A j \in 1..(2 * N) : ~EndsWith(result[j], CombinedSuffix)
            /\ combine =>
                 /\ EndsWith(result[2 * N + 1], CombinedSuffix)
                 /\ result[2 * N + 1] = combined_pdf_path
                 /\ Cardinality({j \in 1..Len(result) : result[j] = combined_pdf_path}) = 1

C1_Witness ==
    /\ pc = "done"
    /\ combine
    /\ Len(Source) = 3
    /\ Len(result) = 7

\* C2: output pages are numbered from 1 in steps of 1: page i is saved as
\* {base}_{2i+1}.pdf (left) and {base}_{2i+2}.pdf (right) in the output
\* directory; at the start of iteration i the counter is 2i+1 and the result
\* list has 2i entries; the split files carry exactly the numbers 1..2N.
C2_SequentialNumbers ==
    /\ pc = "loop" =>
         /\ page_counter = 2 * page_num + 1
         /\ Len(generated_pdfs) = 2 * page_num
         /\ Len(written) = 2 * page_num
    /\ pc \in {"loop", "save_left", "save_right", "extend", "combine", "merge",
               "return", "print", "done", "returned"} =>
         \A j \in 1..Len(written) :
            j <= 2 * Len(Source) =>
              /\ written[j] = output_dir \o <<"/">> \o base_filename
                                \o <<"_">> \o Str(j) \o DotPdf
              /\ extract_page_number(written[j]) = IntKey(j)
              /\ IF j % 2 = 1
                 THEN IsLeftHalf(files[Norm(written[j])], (j - 1) \div 2)
                 ELSE IsRightHalf(files[Norm(written[j])], (j - 2) \div 2)
    /\ pc \in {"combine", "return", "returned"} =>
         {extract_page_number(generated_pdfs[j]).n : j \in 1..(2 * Len(Source))}
            = 1..(2 * Len(Source))

C2_Witness ==
    /\ pc = "loop"
    /\ page_num = 5
    /\ Len(written) = 10
    /\ EndsWith(written[10], <<"_", "1", "0", ".", "p", "d", "f">>)

\* the unit squares of the fixed-point grid that a rectangle covers
Cells(r) == {<<x, y>> : x \in r.x0..(r.x1 - 1), y \in r.y0..(r.y1 - 1)}

\* C4: for a page of width W and height H the left region (0,0,W/2,H) and the
\* right region (W/2,0,W,H) partition the page: their union is the page,
\* they share only the boundary x = W/2, their widths add up to W, both are
\* H high, and both output pages are sized (W/2, H).
C4_HalvesPartitionPage ==
    pc \in {"save_left", "save_right", "extend"} =>
        LET page == pdf_document[page_num + 1]
            W == page.width
            H == page.height
            l == left_clip
            r == right_clip
        IN  /\ Cells(l) \cup Cells(r) = Cells(Rect(0, 0, W, H))
            /\ Cells(l) \cap Cells(r) = {}
            /\ l.x1 = r.x0 /\ 2 * l.x1 = W
            /\ l.x0 = 0 /\ r.x1 = W
            /\ (l.x1 - l.x0) + (r.x1 - r.x0) = W
            /\ l.y0 = 0 /\ r.y0 = 0 /\ l.y1 = H /\ r.y1 = H
            /\ Len(left_page_doc) = 1 /\ Len(right_page_doc) = 1
            /\ 2 * left_page_doc[1].width = W /\ left_page_doc[1].height = H
            /\ 2 * right_page_doc[1].width = W /\ right_page_doc[1].height = H
            /\ left_page_doc[1].clip = l /\ right_page_doc[1].clip = r

C4_Witness ==
    /\ pc = "save_right"
    /\ pdf_document[page_num + 1].width = Fix(3)
    /\ pdf_document[page_num + 1].height = Fix(2)
    /\ left_clip = Rect(0, 0, 3, 4)
    /\ right_clip = Rect(3, 0, 6, 4)

\* the orders in which a list may be handed to the sort: every permutation
\* of a short list; of a longer one its reversal, its rotations and every
\* exchange of two entries
Reorderings(list) ==
    LET n == Len(list)
    IN  IF n <= MaxPerm
        THEN {[i \in 1..n |-> list[f[i]]] : f \in Permutations(1..n)}
        ELSE {[i \in 1..n |-> list[n + 1 - i]]}
             \cup {[i \in 1..n |-> list[((i + k - 1) % n) + 1]] : k \in 0..(n - 1)}
             \cup {[i \in 1..n |-> IF i = a THEN list[b]
                                   ELSE IF i = b THEN list[a] ELSE list[i]] :
                     a \in 1..n, b \in 1..n}

\* C3: with combine_output the combined document holds exactly the 2N split
\* pages, one per split file, in strictly ascending order of the number
\* extract_page_number takes from each path, in whatever order the list is
\* handed to the sort; for the files of the split loop that is 1, 2, ..., 2N,
\* also when the base name itself ends in _<digits>.
C3_CombinedAscending ==
    /\ (pc = "merge" /\ Len(merge_queue) = Len(generated_pdfs)) =>
         /\ \A j \in 1..Len(merge_queue) :
               extract_page_number(merge_queue[j]) = IntKey(j)
         /\ \A j \in 1..(Len(merge_queue) - 1) :
               KeyLess(extract_page_number(merge_queue[j]),
                       extract_page_number(merge_queue[j + 1]))
         /\ \A q \in Reorderings(generated_pdfs) : sorted(q) = merge_queue
    /\ (combine /\ pc \in {"return", "print", "done", "returned"}) =>
         LET c == files[Norm(combined_pdf_path)]
             N == Len(Source)
         IN  /\ Len(c) = 2 * N
             /\ \A i \in 0..(N - 1) :
                  /\ IsLeftHalf(<<c[2 * i + 1]>>, i)
                  /\ IsRightHalf(<<c[2 * i + 2]>>, i)
             /\ \A j \in 1..(2 * N) :
                  <<c[j]>> = files[Norm(output_dir \o <<"/">> \o base_filename
                                          \o <<"_">> \o Str(j) \o DotPdf)]

C3_Witness ==
    /\ pc = "done"
    /\ combine
    /\ base_filename = <<"a", "_", "1">>
    /\ Len(files[Norm(combined_pdf_path)]) = 10
    /\ files[Norm(combined_pdf_path)][10].number = 4

\* C5: when the input path does not exist the call fails with
\* FileNotFoundError before any side effect: no step changes a file or makes
\* a directory, nothing is written and the output directory is not created.
C5_MissingInputNoSideEffect ==
    [][(found_pdf' # None /\ Norm(found_pdf') \notin DOMAIN files'
          /\ Norm(found_pdf') \notin dirs') =>
          /\ files' = files /\ dirs' = dirs
          /\ written' = <<>>
          /\ Norm(join(Cwd, OutName)) \notin dirs'
          /\ handles' = {}
          /\ result' = NoResult
          /\ pc' \in {"validate", "raised", "aborted"}
          /\ pc' # "validate" => exc' = "FileNotFoundError"
          /\ pc = "validate" => pc' = "raised"
          /\ pc = "raised" => (viaMain /\ pc' = "aborted")
      ]_vars

C5_Witness ==
    /\ pc = "aborted"
    /\ exc = "FileNotFoundError"
    /\ output_dir = join(Cwd, OutName)
    /\ output = <<ErrorLine("FileNotFoundError")>>

IsFileLine(l) == l.kind = "file" \/ l = HeaderLine

\* C6: an I/O failure at any step aborts the whole operation: after the
\* failing step no file is written and no directory made, no list is
\* returned, and main echoes one error message and aborts without printing
\* the list of generated files; no step is retried.
C6_FailureAborts ==
    [][exc' # NoException =>
          /\ files' = files /\ dirs' = dirs /\ written' = written
          /\ result' = NoResult
          /\ \A i \in 1..Len(output') : ~IsFileLine(output'[i])
          /\ pc' \in {"raised", "aborted"}
          /\ exc = NoException => (pc' = "raised" /\ output' = output)
          /\ exc # NoException =>
                /\ exc' = exc /\ pc = "raised" /\ viaMain /\ pc' = "aborted"
                /\ output' = output \o <<ErrorLine(exc)>>
                /\ UNCHANGED <<handles, generated_pdfs, page_counter, page_num>>
      ]_vars

C6_Witness ==
    /\ pc = "aborted"
    /\ exc = "OSError"
    /\ Len(written) = 3
    /\ output = <<ErrorLine("OSError")>>
    /\ result = NoResult

\* C7: a second run with the same input, output directory and combine flag
\* writes the same file names as the first, returns an equal list and leaves
\* the output directory with the same set of files.
C7_NamingIdempotent ==
    (runs >= 2 /\ pc = "done") =>
        /\ result = prev.result
        /\ written = prev.written
        /\ DOMAIN files = prev.files
        /\ \A j \in 1..Len(written) : Norm(written[j]) \in prev.files

C7_Witness ==
    /\ runs = 2
    /\ pc = "done"
    /\ combine
    /\ Len(written) = 5
    /\ output_dir = Dot

\* the paths a call may write: the split files 1..2N and the combined file
AllowedOutputs ==
    IF base_filename = None THEN {}
    ELSE {Norm(output_dir \o <<"/">> \o base_filename \o <<"_">> \o Str(j) \o DotPdf) :
             j \in 1..(2 * Len(Source))}
         \cup {Norm(output_dir \o <<"/">> \o base_filename \o CombinedSuffix)}

\* C8: the call never changes the source file: every path it writes differs
\* from the input path, also when the output directory is the input's own;
\* each step changes nothing on disk but the output directory (made if
\* absent), the 2N split files and at most one combined file.
C8_SourceUntouched ==
    [][/\ \A f \in DOMAIN files : f \in DOMAIN files'
       /\ \A f \in DOMAIN files' :
             \/ f \in DOMAIN files /\ files'[f] = files[f]
             \/ /\ f \in AllowedOutputs'
                /\ f # Norm(found_pdf')
                /\ f = Norm(written'[Len(written')])
                /\ Len(written') = Len(written) + 1
       /\ \A j \in 1..Len(written') : Norm(written'[j]) # Norm(found_pdf')
       /\ Len(written') <= 2 * Len(pdf_document') + 1
       /\ (~combine) => Len(written') <= 2 * Len(pdf_document')
       /\ dirs \subseteq dirs'
       /\ dirs' # dirs => (pc = "makedirs" /\ dirs' = dirs \cup Ancestors(Norm(output_dir')))
       /\ pdf_document' # <<>> => files'[Norm(found_pdf')] = pdf_document'
      ]_vars

C8_Witness ==
    /\ pc = "done"
    /\ combine
    /\ dirname(Norm(found_pdf)) = Norm(output_dir)
    /\ found_pdf = <<".", "/", "a", "_", "1", ".", "p", "d", "f">>
    /\ Len(written) = 3

\* C9: main without an input, in a directory with no file whose name ends in
\* .pdf in any case, echoes the "No PDF found" message and aborts before the
\* split operation is called: nothing is written and no directory is made.
C9_NoPdfFoundAborts ==
    [][/\ (viaMain /\ input_pdf = None /\ pc = "main"
            /\ \A f \in DOMAIN files :
                  dirname(f) = Cwd => ~EndsWith(Lower(basename(f)), DotPdf)) =>
            /\ pc' = "aborted"
            /\ output' = <<NoPdfLine>>
            /\ found_pdf' = None /\ output_dir' = None /\ base_filename' = None
            /\ exc' = NoException
            /\ files' = files /\ dirs' = dirs
            /\ written' = <<>>
            /\ Norm(join(Cwd, OutName)) \notin dirs'
            /\ handles' = {}
            /\ result' = NoResult
       /\ pc # "aborted"
      ]_vars

C9_Witness ==
    /\ pc = "aborted"
    /\ input_pdf = None
    /\ DOMAIN files = {Norm(join(Dot, <<"a", ".", "t", "x", "t">>))}
    /\ output = <<NoPdfLine>>

\* C10: every document handle the call opens is closed on every exit path,
\* also when a render, save or merge step fails: in every terminal state no
\* handle is open.
C10_NoHandleLeftOpen ==
    pc \in {"done", "returned", "raised", "aborted"} => handles = {}

====
